---- MODULE Spec2Model ----
(***************************************************************************)
(* Model of the process-orchestration server, src/server.js.               *)
(*                                                                         *)
(* The server runs on one event loop: every handler (an inbound frame, a   *)
(* chunk of output, a child's 'error' or 'close' event) runs to completion *)
(* before the next one starts, so each handler is one atomic action.       *)
(* A handler is written as a function from a handler state                 *)
(*   S = [rp : the live-process map, procs : the children with handlers,   *)
(*        out : the frames sent so far by this handler,                    *)
(*        calls : the existsSync, spawn and kill calls made so far,        *)
(*        over : a spawn found every child slot of the model taken,        *)
(*        uncaught : a spawn failed whose child has no 'error' listener]   *)
(* to the handler state at its return, in the order of the statements of   *)
(* the source.                                                             *)
(***************************************************************************)
EXTENDS Integers, Sequences, FiniteSets, TLC

\* ------------------------------------------------------------------ bounds
\* The number of children with handlers attached (children of runProject and
\* of cleanProject whose 'close' event is still to come) at one time.
MaxLive == 2

\* ------------------------------------------------------------- small sets
Paths == {"/p", "/q"}
Conns == {"ws1", "ws2"}
Names == {"P"}
Slots == 1..MaxLive

\* child.pid of a child whose spawn failed (JavaScript undefined).
Undefined == 0

\* A command line is a sequence of pieces of text; the piece "install" is
\* the text String.prototype.includes looks for in runProject.
NpmRunDev == <<"npm run dev">>
NpmRunDeploy == <<"npm run deploy">>
NpmInstall == <<"npm ", "install">>
EchoHi == <<"echo hi">>
EchoInstall == <<"echo ", "install", "ed">>
RmRf == <<"rm -rf">>
XdgOpen == <<"xdg-open">>
\* The command field of a frame: absent (<< >>, falsy) or client-supplied.
Absent == << >>
ClientCommands == {Absent, EchoHi, EchoInstall}

Actions == {"run", "deploy", "install", "stop", "open", "clean"}
\* An inbound frame: text JSON.parse rejects, or a parsed command.  Only run
\* and deploy read the command field; an install frame may carry one.
Unparsable == [parsed |-> FALSE]
Frames ==
    {Unparsable} \cup
    [parsed : {TRUE}, action : {"run", "deploy"}, projectPath : Paths,
     projectName : Names, command : ClientCommands] \cup
    [parsed : {TRUE}, action : {"install"}, projectPath : Paths,
     projectName : Names, command : {Absent, EchoHi}] \cup
    [parsed : {TRUE}, action : (Actions \ {"run", "deploy", "install"}) \cup {"bogus"},
     projectPath : Paths, projectName : Names, command : {Absent}]

\* Exit codes of a child: << >> is null (ended by a signal), <<n>> a number.
Null == << >>
\* The code of the 'close' event of a child whose spawn failed (-ENOENT).
SpawnErrno == -2
ExitCodes == {<<0>>, <<1>>}

\* The registry snapshot scanner/projects.json.  A project descriptor (of
\* its fields the name and the path), the lists of descriptors a snapshot
\* may hold, and the content of the file: none, text JSON.parse rejects, or
\* the text of a JSON value in a layout (the scanner writes with an
\* indentation of 2, JSON.stringify(value) writes none).
MaxProjects == 2
Descriptors == {[name |-> "P", path |-> "/p"], [name |-> "P", path |-> "/q"]}
RECURSIVE ProjectLists(_)
ProjectLists(n) ==
    IF n = 0 THEN {<< >>}
    ELSE ProjectLists(n - 1) \cup
         {Append(l, d) : l \in {k \in ProjectLists(n - 1) : Len(k) = n - 1},
                         d \in Descriptors}
\* JSON values: a snapshot {projects: [...]}, and an object without projects.
Snapshots == [projects : ProjectLists(MaxProjects)]
ProjectsLess == [scanDate |-> "2026"]
Layouts == {"indent2", "compact"}
Garbage == [json |-> FALSE]
Texts == {Garbage} \cup
         [json : {TRUE}, layout : Layouts, value : Snapshots \cup {ProjectsLess}]
NoFile == [exists |-> FALSE]
Files == {NoFile} \cup [exists : {TRUE}, text : Texts]
\* No response: none asked for yet, or the request's handler threw.
NoResponse == [sent |-> FALSE]

\* A child slot no child holds.
NoChild ==
    [kind |-> "none", ws |-> "", path |-> "", pid |-> Undefined, state |-> "free",
     signalled |-> FALSE]

VARIABLES
    runningProcesses,  \* the Map projectPath -> entry, in insertion order
    procs,             \* the children whose handlers may still run, by handle
    clients,           \* wss.clients: the open connections
    sent,              \* the frames the last handler sent, in order
    calls,             \* the system calls the last handler made, in order
    last,              \* the event the last handler handled
    server,            \* "up"; "uncaught": an 'error' event no listener
                       \* takes is due; "down": the process has ended
    projectsData,      \* the registry snapshot the server holds
    disk,              \* the content of scanner/projects.json
    res                \* the response of the last HTTP request handled

vars == <<runningProcesses, procs, clients, sent, calls, last, server,
          projectsData, disk, res>>

\* -------------------------------------------------------------- Map (ES6)
MapHasNever(m, k) == FALSE

MapHas(m, k) == \E i \in 1..Len(m) : m[i].key = k

\* Map.prototype.get: the value, or undefined.
NoEntry == [undefined |-> TRUE]

MapGet(m, k) ==
    IF \E i \in 1..Len(m) : m[i].key = k
    THEN m[CHOOSE i \in 1..Len(m) : m[i].key = k]
    ELSE NoEntry

MapSet(m, k, v) ==
    IF MapHas(m, k)
    THEN [i \in 1..Len(m) |-> IF m[i].key = k THEN v ELSE m[i]]
    ELSE Append(m, v)

MapDelete(m, k) == SelectSeq(m, LAMBDA e : e.key # k)

\* String.prototype.includes on a command line.
Includes(command, text) == \E i \in 1..Len(command) : command[i] = text

\* command || dflt
OrDefault(command, dflt) == IF command = Absent THEN dflt ELSE command

\* ------------------------------------------------------------ ws.send
Send(S, ev) == [S EXCEPT !.out = Append(@, ev)]

\* fs.existsSync(path.join(projectPath, 'node_modules')): the file system is
\* not the server's; what it answers is an input of the handler, nm.
existsSync(S, projectPath, nm) ==
    [S EXCEPT !.calls = Append(@, [call |-> "existsSync", path |-> projectPath,
                                   result |-> nm])]

\* The handle child_process.spawn returns next: the first free slot.
FreeSlots(S) == {h \in Slots : S.procs[h].state = "free"}
NextChild(S) == IF FreeSlots(S) = {} THEN 0
                ELSE CHOOSE h \in FreeSlots(S) : \A g \in FreeSlots(S) : h <= g

\* child_process.spawn of a child the caller attaches handlers to: returns
\* the handle at once; a failed spawn is told later by the child's 'error'
\* event, and the child then has no pid.
spawn(S, kind, ws, projectPath, command, ok) ==
    LET h == NextChild(S) IN
    IF h = 0 THEN [S EXCEPT !.over = TRUE]
    ELSE [S EXCEPT
            !.procs[h] = [kind |-> kind, ws |-> ws, path |-> projectPath,
                          pid |-> IF ok THEN h ELSE Undefined,
                          state |-> IF ok THEN "running" ELSE "spawnfail",
                          signalled |-> FALSE],
            !.calls = Append(@, [call |-> "spawn", command |-> command,
                                 path |-> projectPath, child |-> h])]

\* child_process.spawn of a child the caller attaches no handler to.  A
\* failed spawn is told by the child's 'error' event, which no listener takes.
spawnDetached(S, command, projectPath, ok) ==
    [S EXCEPT !.calls = Append(@, [call |-> "spawn", command |-> command,
                                   path |-> projectPath, child |-> 0]),
              !.uncaught = ~ok]

broadcastStatus(S) ==
    LET running == [i \in 1..Len(S.rp) |->
                      [id |-> S.rp[i].key, name |-> S.rp[i].name,
                       path |-> S.rp[i].path, pid |-> S.rp[i].pid]]
    IN  IF clients = {} THEN S
        ELSE Send(S, [to |-> clients, type |-> "status", running |-> running])

\* ------------------------------------------------------------ runProject
\* startChild that announces the entry before it tells the caller of the start.
startChildStatusFirst(S, ws, projectPath, projectName, command, ok) ==
    LET child == NextChild(S)
        S2 == spawn(S, "project", ws, projectPath, command, ok)
        S3 == [S2 EXCEPT !.rp = MapSet(@, projectPath,
                   [key |-> projectPath, name |-> projectName,
                    path |-> projectPath, pid |-> S2.procs[child].pid,
                    process |-> child])]
    IN  IF S2.over THEN S2
        ELSE Send(broadcastStatus(S3),
                  [to |-> {ws}, type |-> "start", projectPath |-> projectPath,
                   projectName |-> projectName, command |-> command])

\* The rest of runProject once the checks passed: tell the caller, spawn the
\* shell, store the entry, broadcast.  (The handlers attached to the child
\* are onData, onError and onClose below.)
startChild(S, ws, projectPath, projectName, command, ok) ==
    LET S1 == Send(S, [to |-> {ws}, type |-> "start", projectPath |-> projectPath,
                       projectName |-> projectName, command |-> command])
        child == NextChild(S1)
        S2 == spawn(S1, "project", ws, projectPath, command, ok)
        S3 == [S2 EXCEPT !.rp = MapSet(@, projectPath,
                   [key |-> projectPath, name |-> projectName,
                    path |-> projectPath, pid |-> S2.procs[child].pid,
                    process |-> child])]
    IN  IF S2.over THEN S2 ELSE broadcastStatus(S3)

AlreadyRunning(ws, projectPath) ==
    [to |-> {ws}, type |-> "error", projectPath |-> projectPath,
     message |-> "is already running! Stop it first."]

MissingModules(ws, projectPath) ==
    [to |-> {ws}, type |-> "warning", projectPath |-> projectPath,
     message |-> "node_modules not found. Installing dependencies first..."]

\* runProject without the return after the refusal.
runProjectNoReturn(S, ws, projectPath, projectName, command, ok, nm) ==
    LET S0 == IF MapHas(S.rp, projectPath)
              THEN Send(S, AlreadyRunning(ws, projectPath)) ELSE S
        S1 == existsSync(S0, projectPath, nm)
    IN  IF ~nm /\ ~Includes(command, "install")
        THEN startChild(existsSync(Send(S1, MissingModules(ws, projectPath)),
                                   projectPath, nm),
                        ws, projectPath, projectName, NpmInstall, ok)
        ELSE startChild(S1, ws, projectPath, projectName, command, ok)

\* runProject that warns of the missing node_modules and runs the command.
runProjectWarnOnly(S, ws, projectPath, projectName, command, ok, nm) ==
    IF MapHas(S.rp, projectPath)
    THEN Send(S, AlreadyRunning(ws, projectPath))
    ELSE LET S0 == existsSync(S, projectPath, nm) IN
         IF ~nm /\ ~Includes(command, "install")
         THEN startChild(Send(S0, MissingModules(ws, projectPath)),
                         ws, projectPath, projectName, command, ok)
         ELSE startChild(S0, ws, projectPath, projectName, command, ok)

\* runProject that installs first and then runs the command.
runProjectInstallThenRun(S, ws, projectPath, projectName, command, ok, nm) ==
    IF MapHas(S.rp, projectPath)
    THEN Send(S, AlreadyRunning(ws, projectPath))
    ELSE LET S0 == existsSync(S, projectPath, nm) IN
         IF ~nm /\ ~Includes(command, "install")
         THEN LET S1 == startChild(existsSync(Send(S0, MissingModules(ws, projectPath)),
                                              projectPath, nm),
                                   ws, projectPath, projectName, NpmInstall, ok)
              IN  IF S1.over THEN S1
                  ELSE startChild(S1, ws, projectPath, projectName, command, ok)
         ELSE startChild(S0, ws, projectPath, projectName, command, ok)

RECURSIVE runProject(_, _, _, _, _, _, _)
runProject(S, ws, projectPath, projectName, command, ok, nm) ==
    IF MapHas(S.rp, projectPath)
    THEN Send(S, AlreadyRunning(ws, projectPath))
    ELSE LET S0 == existsSync(S, projectPath, nm) IN
         IF ~nm /\ ~Includes(command, "install")
         THEN runProject(Send(S0, MissingModules(ws, projectPath)),
                         ws, projectPath, projectName, NpmInstall, ok, nm)
         ELSE startChild(S0, ws, projectPath, projectName, command, ok)

\* child.kill('SIGTERM'): sends the child the signal, and returns.
kill(S, h) ==
    [S EXCEPT !.calls = Append(@, [call |-> "kill", child |-> h]),
              !.procs[h].signalled = TRUE]

NotFound(ws, projectPath) ==
    [to |-> {ws}, type |-> "error", projectPath |-> projectPath,
     message |-> "Process not found or already stopped"]

\* stopProject that broadcasts the status whether or not it found an entry.
stopProjectBroadcasts(S, ws, projectPath) ==
    LET proc == MapGet(S.rp, projectPath) IN
    IF proc = NoEntry
    THEN broadcastStatus(Send(S, NotFound(ws, projectPath)))
    ELSE LET S1 == Send(S, [to |-> {ws}, type |-> "info", projectPath |-> projectPath,
                            message |-> "Stopping..."])
             S2 == kill(S1, proc.process)
             S3 == [S2 EXCEPT !.rp = MapDelete(@, projectPath)]
             S4 == broadcastStatus(S3)
         IN  Send(S4, [to |-> {ws}, type |-> "stopped", projectPath |-> projectPath,
                       message |-> "stopped"])

\* stopProject that leaves the entry to the child's 'close' handler.
stopProjectWaits(S, ws, projectPath) ==
    LET proc == MapGet(S.rp, projectPath) IN
    IF proc = NoEntry
    THEN Send(S, NotFound(ws, projectPath))
    ELSE LET S1 == Send(S, [to |-> {ws}, type |-> "info", projectPath |-> projectPath,
                            message |-> "Stopping..."])
         IN  kill(S1, proc.process)

\* stopProject that lets only the connection that started the child stop it.
stopProjectOwnerOnly(S, ws, projectPath) ==
    LET proc == MapGet(S.rp, projectPath) IN
    IF proc = NoEntry \/ S.procs[proc.process].ws # ws
    THEN Send(S, NotFound(ws, projectPath))
    ELSE LET S1 == Send(S, [to |-> {ws}, type |-> "info", projectPath |-> projectPath,
                            message |-> "Stopping..."])
             S2 == kill(S1, proc.process)
             S3 == [S2 EXCEPT !.rp = MapDelete(@, projectPath)]
             S4 == broadcastStatus(S3)
         IN  Send(S4, [to |-> {ws}, type |-> "stopped", projectPath |-> projectPath,
                       message |-> "stopped"])

stopProject(S, ws, projectPath) ==
    LET proc == MapGet(S.rp, projectPath) IN
    IF proc = NoEntry
    THEN Send(S, NotFound(ws, projectPath))
    ELSE LET S1 == Send(S, [to |-> {ws}, type |-> "info", projectPath |-> projectPath,
                            message |-> "Stopping..."])
             S2 == kill(S1, proc.process)
             S3 == [S2 EXCEPT !.rp = MapDelete(@, projectPath)]
             S4 == broadcastStatus(S3)
         IN  Send(S4, [to |-> {ws}, type |-> "stopped", projectPath |-> projectPath,
                       message |-> "stopped"])

openFolder(S, ws, projectPath, ok) ==
    LET S1 == spawnDetached(S, XdgOpen, projectPath, ok)
    IN  Send(S1, [to |-> {ws}, type |-> "info", projectPath |-> projectPath,
                  message |-> "Opened folder"])

\* cleanProject that refuses while the project runs.
cleanProjectGuarded(S, ws, projectPath, projectName, nm) ==
    LET S0 == existsSync(S, projectPath, nm) IN
    IF ~nm
    THEN Send(S0, [to |-> {ws}, type |-> "info", projectPath |-> projectPath,
                   message |-> "has no node_modules to clean"])
    ELSE IF MapHas(S.rp, projectPath)
    THEN Send(S0, AlreadyRunning(ws, projectPath))
    ELSE LET S1 == Send(S0, [to |-> {ws}, type |-> "info", projectPath |-> projectPath,
                             message |-> "Cleaning node_modules..."])
         IN  spawn(S1, "rm", ws, projectPath, RmRf, TRUE)

cleanProject(S, ws, projectPath, projectName, nm) ==
    LET S0 == existsSync(S, projectPath, nm) IN
    IF ~nm
    THEN Send(S0, [to |-> {ws}, type |-> "info", projectPath |-> projectPath,
                   message |-> "has no node_modules to clean"])
    ELSE LET S1 == Send(S0, [to |-> {ws}, type |-> "info", projectPath |-> projectPath,
                             message |-> "Cleaning node_modules..."])
         IN  spawn(S1, "rm", ws, projectPath, RmRf, TRUE)

\* handleCommand that lets an install frame name its command.
handleCommandInstallAny(S, ws, data, ok, nm) ==
    CASE data.action = "run" ->
            runProject(S, ws, data.projectPath, data.projectName,
                       OrDefault(data.command, NpmRunDev), ok, nm)
      [] data.action = "deploy" ->
            runProject(S, ws, data.projectPath, data.projectName,
                       OrDefault(data.command, NpmRunDeploy), ok, nm)
      [] data.action = "install" ->
            runProject(S, ws, data.projectPath, data.projectName,
                       OrDefault(data.command, NpmInstall), ok, nm)
      [] data.action = "stop" -> stopProject(S, ws, data.projectPath)
      [] data.action = "open" -> openFolder(S, ws, data.projectPath, ok)
      [] data.action = "clean" ->
            cleanProject(S, ws, data.projectPath, data.projectName, nm)
      [] OTHER ->
            Send(S, [to |-> {ws}, type |-> "error", message |-> "Unknown action"])

handleCommand(S, ws, data, ok, nm) ==
    CASE data.action = "run" ->
            runProject(S, ws, data.projectPath, data.projectName,
                       OrDefault(data.command, NpmRunDev), ok, nm)
      [] data.action = "deploy" ->
            runProject(S, ws, data.projectPath, data.projectName,
                       OrDefault(data.command, NpmRunDeploy), ok, nm)
      [] data.action = "install" ->
            runProject(S, ws, data.projectPath, data.projectName, NpmInstall, ok, nm)
      [] data.action = "stop" -> stopProject(S, ws, data.projectPath)
      [] data.action = "open" -> openFolder(S, ws, data.projectPath, ok)
      [] data.action = "clean" ->
            cleanProject(S, ws, data.projectPath, data.projectName, nm)
      [] OTHER ->
            Send(S, [to |-> {ws}, type |-> "error", message |-> "Unknown action"])

\* onMessage that tells every client of a frame it cannot parse.
onMessageTellsAll(S, ws, message, ok, nm) ==
    IF ~message.parsed
    THEN Send(S, [to |-> clients, type |-> "error", message |-> "Unexpected token"])
    ELSE handleCommand(S, ws, message, ok, nm)

\* ws.on('message'): JSON.parse throws on text that is no JSON; the catch
\* answers with the exception's message.
onMessage(S, ws, message, ok, nm) ==
    IF ~message.parsed
    THEN Send(S, [to |-> {ws}, type |-> "error", message |-> "Unexpected token"])
    ELSE handleCommand(S, ws, message, ok, nm)

\* onData that fans the chunk out to every client.
onDataToAll(S, h, stream) ==
    Send(S, [to |-> clients, type |-> stream,
             projectPath |-> S.procs[h].path, data |-> "chunk"])

\* child.stdout.on('data') / child.stderr.on('data') of runProject
onData(S, h, stream) ==
    Send(S, [to |-> {S.procs[h].ws}, type |-> stream,
             projectPath |-> S.procs[h].path, data |-> "chunk"])

\* onError that removes the entry and tells nobody.
onErrorNoBroadcast(S, h) ==
    LET S1 == Send(S, [to |-> {S.procs[h].ws}, type |-> "error",
                       projectPath |-> S.procs[h].path, message |-> "spawn ENOENT"])
    IN  [S1 EXCEPT !.rp = MapDelete(@, S.procs[h].path)]

\* child.on('error') of runProject
onError(S, h) ==
    LET S1 == Send(S, [to |-> {S.procs[h].ws}, type |-> "error",
                       projectPath |-> S.procs[h].path, message |-> "spawn ENOENT"])
        S2 == [S1 EXCEPT !.rp = MapDelete(@, S.procs[h].path)]
    IN  broadcastStatus(S2)

\* onClose that empties the map.
onCloseClearsMap(S, h, code) ==
    LET S1 == Send(S, [to |-> {S.procs[h].ws}, type |-> "exit",
                       projectPath |-> S.procs[h].path, code |-> code])
        S2 == [S1 EXCEPT !.rp = << >>]
    IN  broadcastStatus(S2)

\* onClose that leaves the entry in the map.
onCloseKeepsEntry(S, h, code) ==
    broadcastStatus(Send(S, [to |-> {S.procs[h].ws}, type |-> "exit",
                             projectPath |-> S.procs[h].path, code |-> code]))

\* child.on('close') of runProject
onClose(S, h, code) ==
    LET S1 == Send(S, [to |-> {S.procs[h].ws}, type |-> "exit",
                       projectPath |-> S.procs[h].path, code |-> code])
        S2 == [S1 EXCEPT !.rp = MapDelete(@, S.procs[h].path)]
    IN  broadcastStatus(S2)

\* onCleanClose that does not look at the exit code.
onCleanCloseAlwaysSuccess(S, h, code) ==
    Send(S, [to |-> {S.procs[h].ws}, type |-> "success",
             projectPath |-> S.procs[h].path, message |-> "Cleaned node_modules"])

\* child.on('close') of cleanProject
onCleanClose(S, h, code) ==
    IF code = <<0>>
    THEN Send(S, [to |-> {S.procs[h].ws}, type |-> "success",
                  projectPath |-> S.procs[h].path, message |-> "Cleaned node_modules"])
    ELSE Send(S, [to |-> {S.procs[h].ws}, type |-> "error",
                  projectPath |-> S.procs[h].path, message |-> "Failed to clean"])

\* ------------------------------------------------------- registry, HTTP
\* JSON.stringify(value): the text of the value without indentation.
JSONstringify(value) == [json |-> TRUE, layout |-> "compact", value |-> value]

\* loadProjects that reads the file only while it holds no project.
loadProjectsOnce(data, file) ==
    IF file.exists /\ data = [projects |-> << >>]
    THEN IF file.text.json
         THEN [threw |-> FALSE, projectsData |-> file.text.value]
         ELSE [threw |-> TRUE, projectsData |-> data]
    ELSE [threw |-> FALSE, projectsData |-> data]

\* loadProjects: the snapshot the server holds after the call, or threw if
\* JSON.parse rejected the text of the file.
loadProjects(data, file) ==
    IF file.exists
    THEN IF file.text.json
         THEN [threw |-> FALSE, projectsData |-> file.text.value]
         ELSE [threw |-> TRUE, projectsData |-> data]
    ELSE [threw |-> FALSE, projectsData |-> data]

\* The response of GET /api/projects.
apiProjects(data) == [sent |-> TRUE, status |-> 200, body |-> JSONstringify(data)]

\* The response of POST /api/rescan once loadProjects returned; reading
\* projectsData.projects.length throws if the snapshot has no projects.
apiRescan(data) ==
    IF "projects" \in DOMAIN data
    THEN [threw |-> FALSE,
          res |-> [sent |-> TRUE, status |-> 200,
                   body |-> JSONstringify([success |-> TRUE,
                                           count |-> Len(data.projects)])]]
    ELSE [threw |-> TRUE, res |-> NoResponse]

\* ---------------------------------------------------------------- actions
Handler ==
    [rp |-> runningProcesses, procs |-> procs, out |-> << >>, calls |-> << >>,
     over |-> FALSE, uncaught |-> FALSE]

\* The handler returned with handler state S.
Return(S) ==
    /\ ~S.over
    /\ runningProcesses' = S.rp
    /\ procs' = S.procs
    /\ sent' = S.out
    /\ calls' = S.calls
    /\ server' = IF S.uncaught THEN "uncaught" ELSE "up"
    /\ UNCHANGED <<projectsData, disk, res>>

\* A spawn has failed and the child's 'error' event is due: the runtime
\* emits it on the next tick, before the event loop takes any other event.
ErrorDue == \E h \in Slots : procs[h].state = "spawnfail"

\* The event loop takes the next event: the process runs and no next-tick
\* 'error' event is due.
Ready == server = "up" /\ ~ErrorDue

\* An exception no handler catches ends the process: its connections close,
\* and the map and the handlers of its children are gone with it (the
\* children themselves are left to the operating system).
Dies ==
    /\ server' = "down"
    /\ clients' = {}
    /\ runningProcesses' = << >>
    /\ procs' = [h \in Slots |-> NoChild]
    /\ sent' = << >>
    /\ calls' = << >>

Init ==
    /\ runningProcesses = << >>
    /\ procs = [h \in Slots |-> NoChild]
    /\ clients = {}
    /\ sent = << >>
    /\ calls = << >>
    /\ last = [op |-> "init"]
    /\ server = "up"
    /\ projectsData = [projects |-> << >>]
    /\ disk = NoFile
    /\ res = NoResponse

\* wss.on('connection')
Connect(ws) ==
    /\ Ready
    /\ ws \notin clients
    /\ clients' = clients \cup {ws}
    /\ sent' = << >>
    /\ calls' = << >>
    /\ last' = [op |-> "connection", ws |-> ws]
    /\ UNCHANGED <<runningProcesses, procs, server, projectsData, disk, res>>

\* ws.on('close')
Disconnect(ws) ==
    /\ Ready
    /\ ws \in clients
    /\ clients' = clients \ {ws}
    /\ sent' = << >>
    /\ calls' = << >>
    /\ last' = [op |-> "disconnect", ws |-> ws]
    /\ UNCHANGED <<runningProcesses, procs, server, projectsData, disk, res>>

\* ws.on('message'); ok: whether the operating system can start the child
\* the command spawns; nm: whether the project's node_modules exists.
Message(ws, message, ok, nm) ==
    /\ Ready
    /\ ws \in clients
    /\ Return(onMessage(Handler, ws, message, ok, nm))
    /\ last' = [op |-> "message", ws |-> ws, message |-> message]
    /\ UNCHANGED clients

\* A chunk of output of a child of runProject arrives.
Data(h, stream) ==
    /\ Ready
    /\ procs[h].kind = "project"
    /\ procs[h].state \in {"running", "exited"}
    /\ Return(onData(Handler, h, stream))
    /\ last' = [op |-> "data", child |-> h, stream |-> stream]
    /\ UNCHANGED clients

\* The operating-system process of a child ends; its 'close' event follows.
Exit(h) ==
    /\ Ready
    /\ procs[h].kind = "project"
    /\ procs[h].state = "running"
    /\ procs' = [procs EXCEPT ![h].state = "exited"]
    /\ sent' = << >>
    /\ calls' = << >>
    /\ last' = [op |-> "ended", child |-> h]
    /\ UNCHANGED <<runningProcesses, clients, server, projectsData, disk, res>>

\* The 'error' event of a child of runProject whose spawn failed.
ChildError(h) ==
    /\ server = "up"
    /\ procs[h].kind = "project"
    /\ procs[h].state = "spawnfail"
    /\ LET S == onError(Handler, h) IN
        Return([S EXCEPT !.procs[h].state = "errored"])
    /\ last' = [op |-> "error", child |-> h, proc |-> procs[h]]
    /\ UNCHANGED clients

\* The 'error' event of a child no 'error' listener is attached to: the
\* emitter throws the error, and nothing catches it.
Uncaught ==
    /\ server = "uncaught"
    /\ Dies
    /\ last' = [op |-> "uncaught"]
    /\ UNCHANGED <<projectsData, disk, res>>

\* The 'close' event of a child of runProject.  After the child ended, code
\* is its exit code, or null when a signal ended it; after the 'error' event
\* of a failed spawn, code is the error number of the spawn.  No handler of
\* the child runs later.
ChildClose(h, code) ==
    /\ Ready
    /\ procs[h].kind = "project"
    /\ \/ procs[h].state = "exited" /\ code \in ExitCodes \cup {Null}
       \/ procs[h].state = "errored" /\ code = <<SpawnErrno>>
    /\ LET S == onClose(Handler, h, code) IN
        Return([S EXCEPT !.procs[h] = NoChild])
    /\ last' = [op |-> "close", child |-> h, proc |-> procs[h], code |-> code]
    /\ UNCHANGED clients

\* The 'close' event of the removal cleanProject spawned, with its exit code.
CleanClose(h, code) ==
    /\ Ready
    /\ procs[h].kind = "rm"
    /\ procs[h].state = "running"
    /\ code \in ExitCodes
    /\ LET S == onCleanClose(Handler, h, code) IN
        Return([S EXCEPT !.procs[h] = NoChild])
    /\ last' = [op |-> "cleanclose", child |-> h, proc |-> procs[h], code |-> code]
    /\ UNCHANGED clients

\* The scanner, or anything else, writes or removes scanner/projects.json.
Write(file) ==
    /\ Ready
    /\ file # disk
    /\ disk' = file
    /\ sent' = << >>
    /\ calls' = << >>
    /\ last' = [op |-> "write"]
    /\ UNCHANGED <<runningProcesses, procs, clients, server, projectsData, res>>

\* GET /api/projects
GetProjects ==
    /\ Ready
    /\ res' = apiProjects(projectsData)
    /\ sent' = << >>
    /\ calls' = << >>
    /\ last' = [op |-> "projects"]
    /\ UNCHANGED <<runningProcesses, procs, clients, server, projectsData, disk>>

\* POST /api/rescan.  An exception of loadProjects or of the handler is
\* caught nowhere.
Rescan ==
    /\ Ready
    /\ last' = [op |-> "rescan"]
    /\ LET loaded == loadProjects(projectsData, disk)
           answer == apiRescan(loaded.projectsData)
       IN  IF loaded.threw \/ answer.threw
           THEN /\ Dies
                /\ res' = NoResponse
                /\ UNCHANGED <<projectsData, disk>>
           ELSE /\ projectsData' = loaded.projectsData
                /\ res' = answer.res
                /\ sent' = << >>
                /\ calls' = << >>
                /\ UNCHANGED <<runningProcesses, procs, clients, server, disk>>

\* The inputs a frame's handler reads: the outcome of the spawn of runProject
\* or openFolder, and the answer of existsSync.
Starts(message) == message.parsed /\ message.action \in {"run", "deploy", "install"}
SpawnOutcomes(message) ==
    IF Starts(message) \/ (message.parsed /\ message.action = "open")
    THEN BOOLEAN ELSE {TRUE}
ExistsOutcomes(message) ==
    IF message.parsed /\ message.action \in {"run", "deploy", "install", "clean"}
    THEN BOOLEAN ELSE {TRUE}

CloseCodes == ExitCodes \cup {Null, <<SpawnErrno>>}

\* One step of the server with the connections conns and the inbound
\* frames frames.
NextFor(conns, frames) ==
    \/ \E ws \in conns : Connect(ws)
    \/ \E ws \in conns : Disconnect(ws)
    \/ \E ws \in conns, message \in frames :
          \E ok \in SpawnOutcomes(message), nm \in ExistsOutcomes(message) :
              Message(ws, message, ok, nm)
    \/ \E h \in Slots, stream \in {"stdout", "stderr"} : Data(h, stream)
    \/ \E h \in Slots : Exit(h)
    \/ \E h \in Slots : ChildError(h)
    \/ Uncaught
    \/ \E h \in Slots, code \in CloseCodes : ChildClose(h, code)
    \/ \E h \in Slots, code \in CloseCodes : CleanClose(h, code)

Next == NextFor(Conns, Frames)

Spec == Init /\ [][Next]_vars

\* The server with one connection, and an event loop that runs the next
\* tick's 'error' event of a failed spawn (with or without a listener) and
\* delivers the 'close' event of every child that ended: the event stays
\* queued while next ticks run, so the fairness of its delivery is strong.
FairSpec ==
    /\ Init
    /\ [][NextFor({"ws1"}, Frames)]_vars
    /\ \A h \in Slots : WF_vars(ChildError(h))
    /\ WF_vars(Uncaught)
    /\ \A h \in Slots : SF_vars(\E code \in CloseCodes : ChildClose(h, code))

\* The registry facade: the snapshot file changes, and the HTTP endpoints
\* that list and reload the registry are called.
NextHttp ==
    \/ \E file \in Files : Write(file)
    \/ GetProjects
    \/ Rescan

HttpSpec == Init /\ [][NextHttp]_vars

\* ================================================================ claims
\* The positions of the map that hold an entry for projectPath.
EntriesIn(m, projectPath) == {i \in 1..Len(m) : m[i].key = projectPath}
EntriesFor(projectPath) == EntriesIn(runningProcesses, projectPath)

\* The children of runProject for projectPath whose process is alive.
AliveFor(projectPath) ==
    {h \in Slots : /\ procs[h].kind = "project"
                   /\ procs[h].path = projectPath
                   /\ procs[h].state = "running"}

\* The last handler handled a parsed frame with one of these actions.
LastCommand(actions) ==
    /\ last.op = "message"
    /\ last.message.parsed
    /\ last.message.action \in actions

SpawnCalls == {i \in 1..Len(calls) : calls[i].call = "spawn"}
KillCalls == {i \in 1..Len(calls) : calls[i].call = "kill"}

C2_AtMostOneAlive ==
    \A projectPath \in Paths : Cardinality(AliveFor(projectPath)) <= 1

\* C3: a run, deploy or install for a projectPath that has a live entry sends
\* exactly one frame, an error to the caller, spawns and signals nothing,
\* broadcasts no status and leaves the map (the one entry, its pid) and the
\* children as they were.
C3_Refused ==
    [][(/\ LastCommand({"run", "deploy", "install"})'
        /\ MapHas(runningProcesses, last'.message.projectPath))
       => /\ sent' = <<AlreadyRunning(last'.ws, last'.message.projectPath)>>
          /\ calls' = << >>
          /\ runningProcesses' = runningProcesses
          /\ Cardinality(EntriesIn(runningProcesses', last'.message.projectPath)) = 1
          /\ procs' = procs]_vars

\* A deploy was just refused and the entry of its path, with a pid, is there.
C3_Witness ==
    /\ LastCommand({"deploy"})
    /\ sent = <<AlreadyRunning(last.ws, last.message.projectPath)>>
    /\ MapGet(runningProcesses, last.message.projectPath).pid # Undefined

\* C4: an entry leaves the map only in the handler of the 'close' or 'error'
\* event of the child it describes, or in a stop of its path; in particular
\* the 'close' event of a child that ended removes no entry of another
\* child.  (The entry of a child whose spawn failed, and what the handlers
\* of such a child remove, are left out here: they are the matter of C6; so
\* is the end of the server process, the matter of C14.)
C4_RemovedOnlyByOwnChild ==
    [][\A i \in 1..Len(runningProcesses) :
          LET e == runningProcesses[i] IN
          (\A j \in 1..Len(runningProcesses') : runningProcesses'[j] # e)
          => \/ last'.op \in {"close", "error"} /\ last'.child = e.process
             \/ LastCommand({"stop"})' /\ last'.message.projectPath = e.key
             \/ e.pid = Undefined
             \/ last'.op \in {"close", "error"} /\ last'.proc.state # "exited"
             \/ server' = "down"]_vars

\* The frames of type status among the frames the last handler sent.
StatusFrames == {i \in 1..Len(sent) : sent[i].type = "status"}
Lists(frame, projectPath) ==
    \E k \in 1..Len(frame.running) : frame.running[k].path = projectPath

\* C5: the handler of the 'close' event of a child of runProject sends the
\* exit frame with the code of the event to the child's connection, leaves
\* no entry for the child's path, and the status it then broadcasts to every
\* client does not list the path; the entry of every child that ended is
\* removed in the end.
C5_CloseHandled ==
    last.op = "close" =>
        /\ Len(sent) = IF clients = {} THEN 1 ELSE 2
        /\ sent[1] = [to |-> {last.proc.ws}, type |-> "exit",
                      projectPath |-> last.proc.path, code |-> last.code]
        /\ ~MapHas(runningProcesses, last.proc.path)
        /\ \A i \in 2..Len(sent) :
              /\ sent[i].type = "status"
              /\ sent[i].to = clients
              /\ ~Lists(sent[i], last.proc.path)

C5_ExitRemovesEntry ==
    /\ []C5_CloseHandled
    /\ \A h \in Slots :
          (procs[h].kind = "project" /\ procs[h].state = "exited")
          ~> ~(\E i \in 1..Len(runningProcesses) : runningProcesses[i].process = h)

\* A child ended with a non-zero code, its 'close' event was handled and
\* the status went to a client.
C5_Witness ==
    /\ last.op = "close"
    /\ last.proc.state = "exited"
    /\ last.code = <<1>>
    /\ Len(sent) = 2

\* C6: no entry of the map, and no status frame, describes a child whose
\* spawn failed.
C6_NoEntryForFailedSpawn ==
    /\ \A i \in 1..Len(runningProcesses) :
          /\ runningProcesses[i].pid # Undefined
          /\ procs[runningProcesses[i].process].state \notin {"spawnfail", "errored"}
    /\ \A i \in StatusFrames :
          \A k \in 1..Len(sent[i].running) : sent[i].running[k].pid # Undefined

\* C7: stop for a projectPath with no live entry sends exactly one frame, the
\* error to the caller, broadcasts no status, signals and spawns nothing and
\* leaves the map and the children as they were.
C7_StopNotFound ==
    [][(/\ LastCommand({"stop"})'
        /\ ~MapHas(runningProcesses, last'.message.projectPath))
       => /\ sent' = <<NotFound(last'.ws, last'.message.projectPath)>>
          /\ calls' = << >>
          /\ runningProcesses' = runningProcesses
          /\ procs' = procs]_vars

\* A stop was just answered with the error while the other path holds an
\* entry and two clients are connected.
C7_Witness ==
    /\ LastCommand({"stop"})
    /\ sent = <<NotFound(last.ws, last.message.projectPath)>>
    /\ Len(runningProcesses) = 1
    /\ clients = Conns

\* The command a run or deploy frame asks for.
Requested(message) ==
    OrDefault(message.command,
              IF message.action = "run" THEN NpmRunDev ELSE NpmRunDeploy)

C9_Clean ==
    /\ LastCommand({"clean"}) =>
          /\ Len(sent) = 1
          /\ sent[1].type = "info"
          /\ sent[1].to = {last.ws}
          /\ KillCalls = {}
          /\ IF calls[1].result
             THEN /\ Cardinality(SpawnCalls) = 1
                  /\ \A i \in SpawnCalls :
                        /\ calls[i].command = RmRf
                        /\ procs[calls[i].child].kind = "rm"
             ELSE SpawnCalls = {}
    /\ last.op = "cleanclose" =>
          /\ Len(sent) = 1
          /\ sent[1].to = {last.proc.ws}
          /\ sent[1].type = IF last.code = <<0>> THEN "success" ELSE "error"
          /\ calls = << >>

\* A removal just failed and the error went out.
C9_Witness ==
    /\ last.op = "cleanclose"
    /\ last.code = <<1>>
    /\ sent[1].type = "error"

\* C10: a frame that cannot be parsed, or whose action is unknown, makes the
\* server send exactly one frame, an error to the sender alone; the map, the
\* children and the set of clients are unchanged, nothing is spawned or
\* signalled, and the sender is still a client.
BadFrame(message) == ~message.parsed \/ message.action \notin Actions

C10_BadFrame ==
    [][(last'.op = "message" /\ BadFrame(last'.message))
       => /\ Len(sent') = 1
          /\ sent'[1].type = "error"
          /\ sent'[1].to = {last'.ws}
          /\ calls' = << >>
          /\ runningProcesses' = runningProcesses
          /\ procs' = procs
          /\ clients' = clients
          /\ last'.ws \in clients']_vars

\* An unparsable frame was just answered while another client is connected
\* and a project runs.
C10_Witness ==
    /\ last.op = "message"
    /\ ~last.message.parsed
    /\ Len(sent) = 1
    /\ clients = Conns
    /\ Len(runningProcesses) = 1

\* The list broadcastStatus makes of a map.
RunningList(m) ==
    [i \in 1..Len(m) |-> [id |-> m[i].key, name |-> m[i].name,
                          path |-> m[i].path, pid |-> m[i].pid]]

\* C11: a child of runProject belongs to the connection whose frame spawned
\* it (also when the spawn is the install runProject substitutes) for as long
\* as its handlers may run; each chunk of its output is one stdout or stderr
\* frame to that connection alone, no other handler sends such a frame, and
\* every status frame goes to every open connection.
C11_OutputToIssuerOnly ==
    [][/\ \A i \in SpawnCalls' :
             calls'[i].child # 0 => procs'[calls'[i].child].ws = last'.ws
       /\ \A h \in Slots :
             (procs[h] # NoChild /\ procs'[h] # NoChild)
             => procs'[h].ws = procs[h].ws
       /\ last'.op = "data"
             => sent' = <<[to |-> {procs[last'.child].ws}, type |-> last'.stream,
                           projectPath |-> procs[last'.child].path,
                           data |-> "chunk"]>>
       /\ \A i \in 1..Len(sent') :
             /\ sent'[i].type \in {"stdout", "stderr"} => last'.op = "data"
             /\ sent'[i].type = "status" => sent'[i].to = clients']_vars

\* A chunk of output went to the second connection alone while the first is
\* open too.
C11_Witness ==
    /\ last.op = "data"
    /\ clients = Conns
    /\ Len(sent) = 1
    /\ sent[1].to = {"ws2"}
    /\ sent[1].type = "stderr"

\* C12: a handler that changes the map broadcasts the status after its last
\* change, before it returns: the last status frame goes to every open
\* connection and lists exactly the entries of the map the handler leaves,
\* in the map's order.  (The end of the process is no handler's change.)
C12_StatusAfterChange ==
    [][(runningProcesses' # runningProcesses /\ server' # "down" /\ clients' # {})
       => /\ StatusFrames' # {}
          /\ \A i \in StatusFrames' :
                (\A j \in StatusFrames' : j <= i)
                => /\ sent'[i].to = clients'
                   /\ sent'[i].running = RunningList(runningProcesses')]_vars

\* A stop removed one of two entries and the status lists the one left.
C12_Witness ==
    /\ LastCommand({"stop"})
    /\ Len(runningProcesses) = 1
    /\ clients = Conns
    /\ \E i \in StatusFrames :
          /\ Len(sent[i].running) = 1
          /\ sent[i].running = RunningList(runningProcesses)

\* C13: stop for a projectPath with a live entry sends info to the caller,
\* signals the child, removes the entry, broadcasts the status without it and
\* sends stopped to the caller, in this order and in the one handler, while
\* the child is as it was (it has not ended); a start for the same path
\* handled next is not refused as already running.
C13_StopAtOnce ==
    [][/\ (/\ LastCommand({"stop"})'
           /\ MapHas(runningProcesses, last'.message.projectPath))
          => LET projectPath == last'.message.projectPath
                 proc == MapGet(runningProcesses, projectPath)
             IN  /\ Len(sent') = 3
                 /\ sent'[1].type = "info" /\ sent'[1].to = {last'.ws}
                 /\ sent'[2] = [to |-> clients', type |-> "status",
                                running |-> RunningList(MapDelete(runningProcesses,
                                                                  projectPath))]
                 /\ sent'[3].type = "stopped" /\ sent'[3].to = {last'.ws}
                 /\ calls' = <<[call |-> "kill", child |-> proc.process]>>
                 /\ runningProcesses' = MapDelete(runningProcesses, projectPath)
                 /\ procs' = [procs EXCEPT ![proc.process].signalled = TRUE]
       /\ (/\ LastCommand({"stop"})
           /\ Len(sent) = 3
           /\ LastCommand({"run", "deploy", "install"})'
           /\ last'.message.projectPath = last.message.projectPath)
          => /\ sent'[1] # AlreadyRunning(last'.ws, last'.message.projectPath)
             /\ MapHas(runningProcesses', last'.message.projectPath)]_vars

\* A run was started right after the stop of its path, while the stopped
\* child is still alive.
C13_Witness ==
    /\ LastCommand({"run"})
    /\ MapHas(runningProcesses, last.message.projectPath)
    /\ Cardinality(AliveFor(last.message.projectPath)) = 2

\* C14: no failure ends the server process.
C14_NeverCrashes == server # "down"

\* The file holds a snapshot: the text of a JSON object with a projects list.
HoldsSnapshot(file) ==
    file.exists /\ file.text.json /\ file.text.value \in Snapshots

\* C15: a reload while the file holds a snapshot of M projects is answered
\* with the count M and makes that snapshot the server's; a list request
\* handled right after it answers with exactly the file's descriptors, in
\* their order; and a reload handled right after a reload, the file being
\* the same, answers the same and leaves the same snapshot.
C15_ReloadThenList ==
    [][/\ (last'.op = "rescan" /\ HoldsSnapshot(disk))
          => /\ server' = "up"
             /\ projectsData' = disk.text.value
             /\ res' = [sent |-> TRUE, status |-> 200,
                        body |-> JSONstringify(
                            [success |-> TRUE,
                             count |-> Len(disk.text.value.projects)])]
       /\ (last.op = "rescan" /\ HoldsSnapshot(disk) /\ last'.op = "projects")
          => /\ res'.sent /\ res'.status = 200
             /\ res'.body.value.projects = disk.text.value.projects
             /\ projectsData' = projectsData
       /\ (last.op = "rescan" /\ HoldsSnapshot(disk) /\ last'.op = "rescan")
          => /\ res' = res
             /\ projectsData' = projectsData]_vars

\* The list was asked right after a reload of a snapshot of two projects the
\* scanner wrote with its indentation.
C15_Witness ==
    /\ last.op = "projects"
    /\ HoldsSnapshot(disk)
    /\ disk.text.layout = "indent2"
    /\ Len(disk.text.value.projects) = 2
    /\ res.body.value.projects = disk.text.value.projects

\* C16: every frame sent whose type is not status has a projectPath field.
C16_CarriesProjectPath ==
    \A i \in 1..Len(sent) :
        sent[i].type # "status" => "projectPath" \in DOMAIN sent[i]

\* C17: the code of every exit frame is a number.
C17_NumericCode ==
    \A i \in 1..Len(sent) : sent[i].type = "exit" => sent[i].code # Null

\* The paths of the projects of the snapshot the server holds.
Known == IF "projects" \in DOMAIN projectsData
         THEN {projectsData.projects[i].path : i \in 1..Len(projectsData.projects)}
         ELSE {}

\* C18: a deploy, install, open or clean for a projectPath that is not in
\* the snapshot sends the caller one error, that the path is not found, and
\* spawns nothing.
C18_UnknownPathRefused ==
    (/\ LastCommand({"deploy", "install", "open", "clean"})
     /\ last.message.projectPath \notin Known)
    => /\ Len(sent) = 1
       /\ sent[1].type = "error"
       /\ sent[1].to = {last.ws}
       /\ SpawnCalls = {}

\* C19: a child of runProject is told of by one of exit, stopped and error
\* only: the child whose 'close' handler sends exit was not stopped (no
\* stopped frame was sent for it) and its spawn did not fail (no error frame
\* was sent for it).
C19_OneOutcome ==
    last.op = "close" =>
        /\ ~last.proc.signalled
        /\ last.proc.state # "errored"

\* C20: a run or deploy for an idle projectPath whose node_modules is absent,
\* of any command that is not the install command, sends the warning first
\* and spawns the install command instead.
C20_SkippedOnlyForInstall ==
    (/\ LastCommand({"run", "deploy"})
     /\ Requested(last.message) # NpmInstall
     /\ calls # << >>
     /\ calls[1].call = "existsSync"
     /\ ~calls[1].result)
    => /\ sent[1] = MissingModules(last.ws, last.message.projectPath)
       /\ \A i \in SpawnCalls : calls[i].command = NpmInstall

\* C21: an install for a projectPath with a live entry is refused as already
\* running; for an idle projectPath it sends start for the install command
\* and spawns that command alone, whatever the command field of the frame
\* and whether or not node_modules exists, and sends no warning; and a run
\* for the path handled right after an install (started or refused: the path
\* has a live entry) is refused as already running.
C21_InstallFixed ==
    [][/\ LastCommand({"install"})'
          => LET projectPath == last'.message.projectPath IN
             IF MapHas(runningProcesses, projectPath)
             THEN /\ sent' = <<AlreadyRunning(last'.ws, projectPath)>>
                  /\ SpawnCalls' = {}
             ELSE /\ sent'[1] = [to |-> {last'.ws}, type |-> "start",
                                 projectPath |-> projectPath,
                                 projectName |-> last'.message.projectName,
                                 command |-> NpmInstall]
                  /\ \A i \in 1..Len(sent') : sent'[i].type # "warning"
                  /\ Cardinality(SpawnCalls') = 1
                  /\ \A i \in SpawnCalls' : calls'[i].command = NpmInstall
                  /\ MapHas(runningProcesses', projectPath)
       /\ (/\ LastCommand({"install"})
           /\ LastCommand({"run"})'
           /\ last'.message.projectPath = last.message.projectPath)
          => /\ sent' = <<AlreadyRunning(last'.ws, last'.message.projectPath)>>
             /\ SpawnCalls' = {}]_vars

\* An install frame that names "echo hi", for a path without node_modules,
\* started the install command.
C21_Witness ==
    /\ LastCommand({"install"})
    /\ last.message.command = EchoHi
    /\ Len(sent) >= 1
    /\ sent[1].type = "start"
    /\ sent[1].command = NpmInstall
    /\ calls[1].call = "existsSync"
    /\ ~calls[1].result

\* The projectPath the operation or event handled in a step concerns: that
\* of the command of the frame, or that of the child whose output, end,
\* 'error' or 'close' it is; none for any other step.
Concerned ==
    CASE LastCommand(Actions)' -> {last'.message.projectPath}
      [] last'.op \in {"data", "ended"} -> {procs[last'.child].path}
      [] last'.op \in {"error", "close", "cleanclose"} -> {last'.proc.path}
      [] OTHER -> {}

\* C22: a start, stop, clean or open for projectPath A, and an event of a
\* child spawned for A (output, end, spawn error, close), leave the entry of
\* every other projectPath B as it was (none, or the same entry); and a run,
\* deploy or install for a projectPath without an entry is not refused and
\* stores an entry for it, whatever entries the other paths have.
C22_NoInterference ==
    [][/\ \A A \in Concerned : \A B \in Paths \ {A} :
             MapGet(runningProcesses', B) = MapGet(runningProcesses, B)
       /\ (/\ LastCommand({"run", "deploy", "install"})'
           /\ ~MapHas(runningProcesses, last'.message.projectPath))
          => /\ \E i \in 1..Len(sent') : sent'[i].type = "start"
             /\ \A i \in 1..Len(sent') : sent'[i].type # "error"
             /\ MapHas(runningProcesses', last'.message.projectPath)]_vars

\* C23: the handler of a clean or open frame, and the handler of the 'close'
\* event of the removal, leave the map as it was and send no status; and a
\* clean for a projectPath with a live entry and node_modules sends info and
\* spawns the removal at once, while the project's child and its entry stay
\* as they were.
C23_CleanOpenLeaveMap ==
    [][/\ (LastCommand({"clean", "open"})' \/ last'.op = "cleanclose")
          => /\ runningProcesses' = runningProcesses
             /\ \A i \in 1..Len(sent') : sent'[i].type # "status"
       /\ (/\ LastCommand({"clean"})'
           /\ MapHas(runningProcesses, last'.message.projectPath)
           /\ calls'[1].result)
          => /\ Len(sent') = 1 /\ sent'[1].type = "info"
             /\ Cardinality(SpawnCalls') = 1
             /\ \A h \in Slots : procs[h] # NoChild => procs'[h] = procs[h]]_vars

\* A child of one path closed while the other path holds an entry, which
\* stayed.
C22_Witness ==
    /\ last.op = "close"
    /\ last.proc.state = "exited"
    /\ Len(runningProcesses) = 1
    /\ runningProcesses[1].key # last.proc.path

\* The removal was spawned for a path whose project is running and listed.
C23_Witness ==
    /\ LastCommand({"clean"})
    /\ SpawnCalls # {}
    /\ MapHas(runningProcesses, last.message.projectPath)
    /\ AliveFor(last.message.projectPath) # {}
    /\ \E h \in Slots : procs[h].kind = "rm" /\ procs[h].path = last.message.projectPath

\* The calls of existsSync the last handler made: one for each call of
\* runProject that passed the has check.
ExistsCalls == {i \in 1..Len(calls) : calls[i].call = "existsSync"}

FramesOf(frames, types) == {i \in 1..Len(frames) : frames[i].type \in types}

\* C25: the handler that spawns a child for a frame sends the start to the
\* frame's connection before every status that lists the path, and sends no
\* chunk; a chunk is sent only for a child spawned before, whose 'close'
\* event is still to come; and the handler of the 'close' event sends the
\* exit and is the last handler of the child.
C25_StartFirstExitLast ==
    [][/\ \A c \in SpawnCalls' :
             (calls'[c].child # 0 /\ procs'[calls'[c].child].kind = "project")
             => /\ \E s \in FramesOf(sent', {"start"}) :
                      /\ sent'[s].to = {last'.ws}
                      /\ sent'[s].projectPath = calls'[c].path
                      /\ \A t \in FramesOf(sent', {"status"}) : s < t
                /\ \E t \in FramesOf(sent', {"status"}) :
                      /\ Lists(sent'[t], calls'[c].path)
                      /\ last'.ws \in sent'[t].to
                /\ FramesOf(sent', {"stdout", "stderr"}) = {}
                /\ procs[calls'[c].child] = NoChild
       /\ last'.op = "data"
          => /\ procs[last'.child].kind = "project"
             /\ procs[last'.child].state \in {"running", "exited"}
             /\ FramesOf(sent', {"start", "exit"}) = {}
       /\ last'.op = "close"
          => /\ sent'[1].type = "exit"
             /\ FramesOf(sent', {"stdout", "stderr"}) = {}
             /\ procs'[last'.child] = NoChild]_vars

\* A run was started while two connections are open: start, then the status
\* that lists the path.
C25_Witness ==
    /\ LastCommand({"run"})
    /\ clients = Conns
    /\ Len(sent) = 2
    /\ sent[1].type = "start"
    /\ sent[2].type = "status"
    /\ Lists(sent[2], last.message.projectPath)

\* The connection that spawned the child an entry describes.
Owner(e) == procs[e.process].ws

\* C26: the close of a connection leaves the map, the children and the
\* server as they were and sends nothing; an entry whose connection has
\* closed leaves the map only in the handler of a 'close' or 'error' event
\* of a child of its path or of a stop of its path (or with the server
\* process, C14); and a stop of its path by another connection signals the
\* child, removes the entry and is answered stopped.
C26_DisconnectChangesNothing ==
    [][/\ last'.op = "disconnect"
          => /\ runningProcesses' = runningProcesses
             /\ procs' = procs
             /\ server' = server
             /\ sent' = << >>
             /\ calls' = << >>
       /\ \A i \in 1..Len(runningProcesses) :
             LET e == runningProcesses[i] IN
             (Owner(e) \notin clients /\ ~MapHas(runningProcesses', e.key))
             => \/ last'.op \in {"close", "error"} /\ last'.proc.path = e.key
                \/ LastCommand({"stop"})' /\ last'.message.projectPath = e.key
                \/ server' = "down"
       /\ (/\ LastCommand({"stop"})'
           /\ MapHas(runningProcesses, last'.message.projectPath)
           /\ Owner(MapGet(runningProcesses, last'.message.projectPath)) # last'.ws)
          => /\ ~MapHas(runningProcesses', last'.message.projectPath)
             /\ KillCalls' # {}
             /\ sent'[Len(sent')].type = "stopped"]_vars

\* A connection stopped the running child of a connection that has closed.
C26_Witness ==
    /\ LastCommand({"stop"})
    /\ Len(sent) = 3
    /\ clients = {last.ws}
    /\ \E h \in Slots :
          /\ procs[h].kind = "project"
          /\ procs[h].state = "running"
          /\ procs[h].signalled
          /\ procs[h].ws \notin clients

====
